---- MODULE Spec2Model ----
(***************************************************************************)
(* GenerateImageComponent of HordeNG: the job-submission and polling       *)
(* lifecycle.  Every async handler (an interval tick, a generateImage()    *)
(* call) is a task that runs atomically from one await to the next; the    *)
(* tasks in flight are kept in two bags, one record per task holding the   *)
(* await it is suspended at and its local variables.                       *)
(* An await after which a handler only returns (the error message before a *)
(* bare return) is not a suspension point of its own.  The API and the     *)
(* image downloads answer with any outcome; a job reported done or         *)
(* impossible stays so.                                                    *)
(***************************************************************************)
EXTENDS Integers, FiniteSets, Bags

\* ---------------------------------------------------------------- bounds
MaxJobs == 2
\* job ids the API can hand out
MaxTasks == 2
\* handlers (interval callbacks, generateImage() calls) in flight at once
MaxHandles == 2
\* object URLs created in one run
MaxReq == 2
\* cancelJob / getGeneratedImageResult requests counted per job
MaxEdits == 2
\* valueChanges subscribers in flight at once
MaxToasts == 2
\* new-version toasts shown or being prepared at once

Jobs == 1..MaxJobs
Handles == 1..MaxHandles
NoJob == 0
\* JobInProgress | null: a job is its id, null is NoJob
Null == [null |-> TRUE]
\* null of the record-valued signals and locals

\* ------------------------------------------------------------ validators
MinSize == 64
MaxSize == 3072
DivisibleBy == 64
DefaultSize == 512
\* a control without a value: form.value.height is null
NoValue == -1

\* AppValidators.divisibleBy(d)
divisibleBy(n, d) == n % d = 0

\* mutant: Validators.max(3072) is missing
SizeValidNoMax(n) ==
    n # NoValue /\ n >= MinSize /\ divisibleBy(n, DivisibleBy)

\* Validators.required, Validators.min(64), Validators.max(3072),
\* AppValidators.divisibleBy(64)
SizeValid(n) ==
    n # NoValue /\ n >= MinSize /\ n <= MaxSize /\ divisibleBy(n, DivisibleBy)

\* the form's values tried: width, height and whether every other control
\* (prompt, sampler, cfgScale, denoisingStrength, steps, model) is valid
FormValues ==
    { [width |-> 64,  height |-> 64, others |-> TRUE],
      [width |-> 100, height |-> 64, others |-> TRUE] }

\* the form's values tried where the validators are checked: a size below
\* the minimum, off the grid, above the maximum, missing
FormInputs ==
    { [width |-> w, height |-> 64, others |-> TRUE] :
         w \in {NoValue, 0, 64, 100, 3136} }
    \cup { [width |-> 64, height |-> 3136, others |-> TRUE] }

\* this.form.valid
FormValid(f) == f.others /\ SizeValid(f.height) /\ SizeValid(f.width)

\* get formAsOptions(): the fields of GenerationOptions the lifecycle reads
formAsOptions(f) ==
    [width |-> IF f.width = NoValue THEN DefaultSize ELSE f.width,
     height |-> IF f.height = NoValue THEN DefaultSize ELSE f.height]

\* costCalculator.calculate(options): the kudos grow with the pixels
calculate(o) == (o.width * o.height) \div (DivisibleBy * DivisibleBy)

\* authManager.anonymousApiKey, and a key the user has stored
AnonymousApiKey == "0000000000"
StoredApiKey == "stored"

\* ----------------------------------------------------------------- state
VARIABLES
    form,           \* this.form.value
    loading,        \* signal loading
    inProgress,     \* signal inProgress: a job id or NoJob
    result,         \* signal result: Null or a Result
    requestStatus,  \* signal requestStatus: Null or a RequestStatusCheck
    dbJobs,         \* database: the persisted JobInProgress records
    dbMetadata,     \* database: job id -> JobMetadata or Null
    ticks,          \* bag of interval callbacks suspended at an await
    gens,           \* bag of generateImage() calls suspended at an await
    nextJob,        \* API: the id the next accepted submission gets
    srv,            \* API: per job, the terminal status reported so far
    nextHandle,     \* URL.createObjectURL: the next handle
    revoked,        \* URL.revokeObjectURL: the handles released
    cancelReqs,     \* history: cancelJob requests issued per job
    fetchReqs,      \* history: getGeneratedImageResult requests per job
    fetchFailed,    \* history: a result fetch of the job has failed
    lastOp,         \* history: the step taken last
    dbOptions,      \* database: the stored GenerationOptions
    kudosCost,      \* signal kudosCost
    edits,          \* bag of valueChanges subscribers suspended at an await
    apiKey,         \* AuthManagerService.apiKey
    isEnabled,      \* SwUpdate.isEnabled
    app,            \* AppComponent.ngOnInit: the await it is at
    updateChecked,  \* AppComponent: signal updateChecked
    versions,       \* bag of versionUpdates subscribers suspended at an await
    toasts          \* the new-version toasts shown

\* the state of the form's valueChanges subscriber
editVars == << dbOptions, kudosCost, edits >>

\* the state of AppComponent
appVars == << apiKey, isEnabled, app, updateChecked, versions, toasts >>

vars == << form, loading, inProgress, result, requestStatus, dbJobs,
           dbMetadata, ticks, gens, nextJob, srv, nextHandle, revoked,
           cancelReqs, fetchReqs, fetchFailed, lastOp, editVars, appVars >>

\* the handles URL.createObjectURL has returned
created == 1..(nextHandle - 1)

\* -------------------------------------------------------------- database
\* database.addInProgressJob(job)
addInProgressJob(jobs, job) == jobs \cup {job}

\* database.deleteInProgressJob(job); job is NoJob when the caller passed
\* this.inProgress()! while the signal was null
deleteInProgressJob(jobs, job) == jobs \ {job}

\* database.storeGenerationOptions(options)
storeGenerationOptions(stored, o) == o

\* database.storeJobMetadata(metadata)
storeJobMetadata(md, m) == [md EXCEPT ![m.requestId] = m]

\* ----------------------------------------------------------------- tasks
\* a tick: the await it is at, the job of the pending call (or the resolved
\* job), the metadata read, the number of generations (once downloadImages
\* has run: of Results it has set), and (history) the job whose result
\* fetch had already failed when the tick started
TickRec(pc, job, meta, n, retryOf) ==
    [pc |-> pc, job |-> job, meta |-> meta, n |-> n, retryOf |-> retryOf]
\* a generateImage() call: the await it is at, the options sent, the job
\* returned, the metadata passed to storeJobMetadata
GenRec(pc, opts, job, meta) == [pc |-> pc, opts |-> opts, job |-> job, meta |-> meta]

\* a valueChanges subscriber: the await it is at and the options it stores
EditRec(pc, opts) == [pc |-> pc, opts |-> opts]

One(r) == SetToBag({r})
\* the task r resumes and suspends again as s
Move(bag, r, s) == (bag (-) One(r)) (+) One(s)
\* the task r returns or throws
End(bag, r) == bag (-) One(r)

\* ------------------------------------------------------------------ Init
\* ngOnInit up to the subscription of the interval: the form is patched,
\* inProgress is the first persisted job or null, loading is false.
JobsInit ==
    /\ loading = FALSE
    /\ \E stored \in {NoJob, 1} :
          /\ inProgress = stored
          /\ dbJobs = IF stored = NoJob THEN {} ELSE {stored}
          /\ dbMetadata = [j \in Jobs |->
                IF j = stored
                THEN [requestId |-> j, height |-> 64, width |-> 64]
                ELSE Null]
          /\ nextJob = stored + 1
    /\ result = Null
    /\ requestStatus = Null
    /\ ticks = EmptyBag
    /\ gens = EmptyBag
    /\ srv = [j \in Jobs |-> "queued"]
    /\ nextHandle = 1
    /\ revoked = {}
    /\ cancelReqs = [j \in Jobs |-> 0]
    /\ fetchReqs = [j \in Jobs |-> 0]
    /\ fetchFailed = [j \in Jobs |-> FALSE]
    /\ lastOp = "step"

\* ngOnInit, lines 125 and 127: the form is patched with the stored options
\* and kudosCost is their cost; no edit has been made
EditInit ==
    /\ dbOptions = formAsOptions(form)
    /\ kudosCost = calculate(dbOptions)
    /\ edits = EmptyBag

\* AppComponent has finished its ngOnInit as an anonymous user
AppIdle ==
    /\ apiKey = AnonymousApiKey
    /\ isEnabled = FALSE
    /\ app = "done"
    /\ updateChecked = FALSE
    /\ versions = EmptyBag
    /\ toasts = 0

\* The lifecycle of a job.  The valueChanges subscriber of the form reads
\* and writes the stored options and kudosCost only, which no step of the
\* lifecycle reads: it is left to SpecForm, and AppComponent to SpecApp.
Init ==
    /\ form \in FormValues
    /\ JobsInit
    /\ EditInit
    /\ AppIdle

\* ------------------------------------------------------------- form edit
\* the user edits the form
FormEdit ==
    /\ \E f \in FormValues : f # form /\ form' = f
    /\ lastOp' = "step"
    /\ UNCHANGED << loading, inProgress, result, requestStatus, dbJobs,
                    dbMetadata, ticks, gens, nextJob, srv, nextHandle,
                    revoked, cancelReqs, fetchReqs, fetchFailed >>
    /\ UNCHANGED << editVars, appVars >>

\* --------------------------------------------------------- generateImage
\* mutant: the job-in-progress check is missing
GenerateRejectedFormOnly == ~FormValid(form)

\* the two preconditions of generateImage(): a valid form, then no job
GenerateRejected == ~FormValid(form) \/ inProgress # NoJob

\* generateImage() up to its first await: either the await of the error
\* message (nothing follows it) or the await of api.generateImage
generateImage ==
    /\ lastOp' = "generateImage"
    /\ IF GenerateRejected
       THEN UNCHANGED << loading, result, revoked, gens >>
       ELSE /\ BagCardinality(ticks) + BagCardinality(gens) < MaxTasks
            /\ loading' = TRUE
            /\ revoked' = IF result # Null THEN revoked \cup {result.source}
                                           ELSE revoked
            /\ result' = Null
            /\ gens' = gens (+) One(GenRec("api", formAsOptions(form), NoJob, Null))
    /\ UNCHANGED << form, inProgress, requestStatus, dbJobs, dbMetadata, ticks,
                    nextJob, srv, nextHandle, cancelReqs, fetchReqs,
                    fetchFailed >>
    /\ UNCHANGED << editVars, appVars >>

\* api.generateImage answered with an error: the message is awaited
GenApiFailed ==
  \E g \in BagToSet(gens) :
    /\ g.pc = "api"
    /\ gens' = Move(gens, g, GenRec("apiMsg", g.opts, NoJob, Null))
    /\ lastOp' = "step"
    /\ UNCHANGED << form, loading, inProgress, result, requestStatus, dbJobs,
                    dbMetadata, ticks, nextJob, srv, nextHandle, revoked,
                    cancelReqs, fetchReqs, fetchFailed >>
    /\ UNCHANGED << editVars, appVars >>

\* the message is shown: loading off, return
GenApiFailedEnd ==
  \E g \in BagToSet(gens) :
    /\ g.pc = "apiMsg"
    /\ loading' = FALSE
    /\ gens' = End(gens, g)
    /\ lastOp' = "step"
    /\ UNCHANGED << form, inProgress, result, requestStatus, dbJobs,
                    dbMetadata, ticks, nextJob, srv, nextHandle, revoked,
                    cancelReqs, fetchReqs, fetchFailed >>
    /\ UNCHANGED << editVars, appVars >>

\* api.generateImage answered with a new job; addInProgressJob is called
GenApiSucceeded ==
  \E g \in BagToSet(gens) :
    /\ g.pc = "api"
    /\ nextJob <= MaxJobs
    /\ nextJob' = nextJob + 1
    /\ gens' = Move(gens, g, GenRec("add", g.opts, nextJob, Null))
    /\ lastOp' = "step"
    /\ UNCHANGED << form, loading, inProgress, result, requestStatus, dbJobs,
                    dbMetadata, ticks, srv, nextHandle, revoked, cancelReqs,
                    fetchReqs, fetchFailed >>
    /\ UNCHANGED << editVars, appVars >>

\* addInProgressJob resolved; storeJobMetadata is called with the width and
\* height formAsOptions has now
GenJobAdded ==
  \E g \in BagToSet(gens) :
    /\ g.pc = "add"
    /\ dbJobs' = addInProgressJob(dbJobs, g.job)
    /\ gens' = Move(gens, g, GenRec("meta", g.opts, g.job,
                   [requestId |-> g.job,
                    height |-> formAsOptions(form).height,
                    width |-> formAsOptions(form).width]))
    /\ lastOp' = "step"
    /\ UNCHANGED << form, loading, inProgress, result, requestStatus,
                    dbMetadata, ticks, nextJob, srv, nextHandle, revoked,
                    cancelReqs, fetchReqs, fetchFailed >>
    /\ UNCHANGED << editVars, appVars >>

\* storeJobMetadata resolved; the job becomes the current one
GenDone ==
  \E g \in BagToSet(gens) :
    /\ g.pc = "meta"
    /\ dbMetadata' = storeJobMetadata(dbMetadata, g.meta)
    /\ inProgress' = g.job
    /\ loading' = FALSE
    /\ gens' = End(gens, g)
    /\ lastOp' = "generateDone"
    /\ UNCHANGED << form, result, requestStatus, dbJobs, ticks, nextJob, srv,
                    nextHandle, revoked, cancelReqs, fetchReqs, fetchFailed >>
    /\ UNCHANGED << editVars, appVars >>

\* ---------------------------------------------------------- polling loop
\* The frame of a tick step that touches only the task bag.
TickFrame ==
    UNCHANGED << form, gens, nextJob, nextHandle, revoked, dbMetadata >>

\* interval(1_000) fires: the callback up to its first await
TickStart ==
    /\ lastOp' = "tick"
    /\ IF inProgress = NoJob
       THEN UNCHANGED ticks
       ELSE /\ BagCardinality(ticks) + BagCardinality(gens) < MaxTasks
            /\ ticks' = ticks (+) One(TickRec("status", inProgress, Null, 0,
                        IF fetchFailed[inProgress] THEN inProgress ELSE NoJob))
    /\ TickFrame
    /\ UNCHANGED << loading, inProgress, result, requestStatus, dbJobs, srv,
                    cancelReqs, fetchReqs, fetchFailed >>
    /\ UNCHANGED << editVars, appVars >>

\* mutant: a failed status check is handled like an impossible job, the
\* in-memory job is cleared
TickStatusFailedClearsJob ==
  \E t \in BagToSet(ticks) :
    /\ t.pc = "status"
    /\ inProgress' = NoJob
    /\ ticks' = End(ticks, t)
    /\ lastOp' = "statusFailed"
    /\ TickFrame
    /\ UNCHANGED << loading, result, requestStatus, dbJobs, srv,
                    cancelReqs, fetchReqs, fetchFailed >>
    /\ UNCHANGED << editVars, appVars >>

\* checkGenerationStatus answered with an error: the message, then return
TickStatusFailed ==
  \E t \in BagToSet(ticks) :
    /\ t.pc = "status"
    /\ ticks' = End(ticks, t)
    /\ lastOp' = "statusFailed"
    /\ TickFrame
    /\ UNCHANGED << loading, inProgress, result, requestStatus, dbJobs, srv,
                    cancelReqs, fetchReqs, fetchFailed >>
    /\ UNCHANGED << editVars, appVars >>

\* the status is (is_possible, not done): nothing to do
TickPending ==
  \E t \in BagToSet(ticks) :
    /\ t.pc = "status"
    /\ srv[t.job] = "queued"
    /\ requestStatus' = [is_possible |-> TRUE, done |-> FALSE]
    /\ ticks' = End(ticks, t)
    /\ lastOp' = "step"
    /\ TickFrame
    /\ UNCHANGED << loading, inProgress, result, dbJobs, srv, cancelReqs,
                    fetchReqs, fetchFailed >>
    /\ UNCHANGED << editVars, appVars >>

\* the status is not is_possible: cancelJob(this.inProgress()!) is called.
\* With the signal null by now the call has no job to name: it throws, or
\* goes out for no job.
TickImpossible ==
  \E t \in BagToSet(ticks) :
    /\ t.pc = "status"
    /\ srv[t.job] \in {"queued", "impossible"}
    /\ srv' = [srv EXCEPT ![t.job] = "impossible"]
    /\ requestStatus' = [is_possible |-> FALSE, done |-> FALSE]
    /\ IF inProgress # NoJob
       THEN /\ cancelReqs[inProgress] < MaxReq
            /\ cancelReqs' = [cancelReqs EXCEPT ![inProgress] = @ + 1]
            /\ ticks' = Move(ticks, t, TickRec("cancel", t.job, Null, 0, NoJob))
       ELSE /\ UNCHANGED cancelReqs
            /\ \E throws \in BOOLEAN :
                  ticks' = IF throws THEN End(ticks, t)
                           ELSE Move(ticks, t, TickRec("cancel", t.job, Null, 0, NoJob))
    /\ lastOp' = "step"
    /\ TickFrame
    /\ UNCHANGED << loading, inProgress, result, dbJobs, fetchReqs, fetchFailed >>
    /\ UNCHANGED << editVars, appVars >>

\* cancelJob answered (its answer is not read): deleteInProgressJob is
\* called with this.inProgress()! as it is now
TickCancelled ==
  \E t \in BagToSet(ticks) :
    /\ t.pc = "cancel"
    /\ IF inProgress # NoJob
       THEN ticks' = Move(ticks, t, TickRec("delete", inProgress, Null, 0, NoJob))
       ELSE \E throws \in BOOLEAN :
               ticks' = IF throws THEN End(ticks, t)
                        ELSE Move(ticks, t, TickRec("delete", NoJob, Null, 0, NoJob))
    /\ lastOp' = "step"
    /\ TickFrame
    /\ UNCHANGED << loading, inProgress, result, requestStatus, dbJobs, srv,
                    cancelReqs, fetchReqs, fetchFailed >>
    /\ UNCHANGED << editVars, appVars >>

\* deleteInProgressJob resolved: the reference is cleared, the message shown
TickDeleted ==
  \E t \in BagToSet(ticks) :
    /\ t.pc = "delete"
    /\ dbJobs' = deleteInProgressJob(dbJobs, t.job)
    /\ inProgress' = NoJob
    /\ ticks' = End(ticks, t)
    /\ lastOp' = "impossibleDone"
    /\ TickFrame
    /\ UNCHANGED << loading, result, requestStatus, srv, cancelReqs,
                    fetchReqs, fetchFailed >>
    /\ UNCHANGED << editVars, appVars >>

\* mutant: a job whose result fetch has failed is given up, the callback
\* returns without another getGeneratedImageResult
TickDoneGivesUp ==
  \E t \in BagToSet(ticks) :
    /\ t.pc = "status"
    /\ srv[t.job] \in {"queued", "done"}
    /\ srv' = [srv EXCEPT ![t.job] = "done"]
    /\ requestStatus' = [is_possible |-> TRUE, done |-> TRUE]
    /\ IF inProgress # NoJob /\ fetchFailed[inProgress]
       THEN /\ ticks' = End(ticks, t)
            /\ UNCHANGED << fetchReqs, loading >>
       ELSE /\ loading' = TRUE
            /\ IF inProgress # NoJob
               THEN /\ fetchReqs[inProgress] < MaxReq
                    /\ fetchReqs' = [fetchReqs EXCEPT ![inProgress] = @ + 1]
                    /\ ticks' = Move(ticks, t, TickRec("result", inProgress, Null, 0, t.retryOf))
               ELSE /\ UNCHANGED fetchReqs
                    /\ ticks' = Move(ticks, t, TickRec("jobs", NoJob, Null, 0, t.retryOf))
    /\ lastOp' = "statusDone"
    /\ TickFrame
    /\ UNCHANGED << inProgress, result, dbJobs, cancelReqs, fetchFailed >>
    /\ UNCHANGED << editVars, appVars >>

\* the status is done: loading, then the job is this.inProgress() or, with
\* the signal null, read from the database; getGeneratedImageResult(job)
TickDone ==
  \E t \in BagToSet(ticks) :
    /\ t.pc = "status"
    /\ srv[t.job] \in {"queued", "done"}
    /\ srv' = [srv EXCEPT ![t.job] = "done"]
    /\ requestStatus' = [is_possible |-> TRUE, done |-> TRUE]
    /\ loading' = TRUE
    /\ IF inProgress # NoJob
       THEN /\ fetchReqs[inProgress] < MaxReq
            /\ fetchReqs' = [fetchReqs EXCEPT ![inProgress] = @ + 1]
            /\ ticks' = Move(ticks, t, TickRec("result", inProgress, Null, 0, t.retryOf))
       ELSE /\ UNCHANGED fetchReqs
            /\ ticks' = Move(ticks, t, TickRec("jobs", NoJob, Null, 0, t.retryOf))
    /\ lastOp' = "statusDone"
    /\ TickFrame
    /\ UNCHANGED << inProgress, result, dbJobs, cancelReqs, fetchFailed >>
    /\ UNCHANGED << editVars, appVars >>

\* getJobsInProgress resolved: no record throws "Job cannot be null", else
\* the first record is the job
TickJobsRead ==
  \E t \in BagToSet(ticks) :
    /\ t.pc = "jobs"
    /\ IF dbJobs = {}
       THEN /\ ticks' = End(ticks, t)
            /\ UNCHANGED fetchReqs
       ELSE \E job \in dbJobs :
               /\ fetchReqs[job] < MaxReq
               /\ fetchReqs' = [fetchReqs EXCEPT ![job] = @ + 1]
               /\ ticks' = Move(ticks, t, TickRec("result", job, Null, 0, t.retryOf))
    /\ lastOp' = "step"
    /\ TickFrame
    /\ UNCHANGED << loading, inProgress, result, requestStatus, dbJobs, srv,
                    cancelReqs, fetchFailed >>
    /\ UNCHANGED << editVars, appVars >>

\* getGeneratedImageResult answered with an error: the message is awaited
TickResultFailed ==
  \E t \in BagToSet(ticks) :
    /\ t.pc = "result"
    /\ fetchFailed' = [fetchFailed EXCEPT ![t.job] = TRUE]
    /\ ticks' = Move(ticks, t, TickRec("resultMsg", t.job, Null, 0, NoJob))
    /\ lastOp' = "resultFailed"
    /\ TickFrame
    /\ UNCHANGED << loading, inProgress, result, requestStatus, dbJobs, srv,
                    cancelReqs, fetchReqs >>
    /\ UNCHANGED << editVars, appVars >>

\* mutant: the callback returns before loading.set(false)
TickResultFailedEndStaysLoading ==
  \E t \in BagToSet(ticks) :
    /\ t.pc = "resultMsg"
    /\ ticks' = End(ticks, t)
    /\ lastOp' = "resultFailedEnd"
    /\ TickFrame
    /\ UNCHANGED << loading, inProgress, result, requestStatus, dbJobs, srv,
                    cancelReqs, fetchReqs, fetchFailed >>
    /\ UNCHANGED << editVars, appVars >>

\* the message is shown: loading off, return
TickResultFailedEnd ==
  \E t \in BagToSet(ticks) :
    /\ t.pc = "resultMsg"
    /\ loading' = FALSE
    /\ ticks' = End(ticks, t)
    /\ lastOp' = "resultFailedEnd"
    /\ TickFrame
    /\ UNCHANGED << inProgress, result, requestStatus, dbJobs, srv,
                    cancelReqs, fetchReqs, fetchFailed >>
    /\ UNCHANGED << editVars, appVars >>

\* getGeneratedImageResult answered: n generations (at least one for a done
\* job); getJobMetadata(job) is called
TickResultFetched ==
  \E t \in BagToSet(ticks) :
    /\ t.pc = "result"
    /\ \E n \in (IF srv[t.job] = "done" THEN {1} ELSE {0, 1}) :
          ticks' = Move(ticks, t, TickRec("metadata", t.job, Null, n, NoJob))
    /\ lastOp' = "step"
    /\ TickFrame
    /\ UNCHANGED << loading, inProgress, result, requestStatus, dbJobs, srv,
                    cancelReqs, fetchReqs, fetchFailed >>
    /\ UNCHANGED << editVars, appVars >>

\* getJobMetadata resolved; downloadImages requests every generation's image
TickMetadataRead ==
  \E t \in BagToSet(ticks) :
    /\ t.pc = "metadata"
    /\ ticks' = Move(ticks, t, TickRec("download", t.job, dbMetadata[t.job], t.n, NoJob))
    /\ lastOp' = "step"
    /\ TickFrame
    /\ UNCHANGED << loading, inProgress, result, requestStatus, dbJobs, srv,
                    cancelReqs, fetchReqs, fetchFailed >>
    /\ UNCHANGED << editVars, appVars >>

\* -------------------------------------------------------- downloadImages
\* the Result downloadImages builds from generations[0] and the metadata
NewResult(t) ==
    [source |-> nextHandle, id |-> t.job,
     width |-> t.meta.width, height |-> t.meta.height]

\* Promise.all rejected (an image request failed) or resolved to no response
\* at all (no generation): downloadImages throws and so does the callback
TickDownloadThrew ==
  \E t \in BagToSet(ticks) :
    /\ t.pc = "download"
    /\ ticks' = End(ticks, t)
    /\ lastOp' = "step"
    /\ TickFrame
    /\ UNCHANGED << loading, inProgress, result, requestStatus, dbJobs, srv,
                    cancelReqs, fetchReqs, fetchFailed >>
    /\ UNCHANGED << editVars, appVars >>

\* mutant: an empty body clears the Result shown
TickDownloadEmptyClearsResult ==
  \E t \in BagToSet(ticks) :
    /\ t.pc = "download"
    /\ t.n > 0
    /\ result' = Null
    /\ ticks' = Move(ticks, t, TickRec("downloaded", t.job, Null, 0, NoJob))
    /\ lastOp' = "downloadEmpty"
    /\ TickFrame
    /\ UNCHANGED << loading, inProgress, requestStatus, dbJobs, srv,
                    cancelReqs, fetchReqs, fetchFailed >>
    /\ UNCHANGED << editVars, appVars >>

\* responses[0].body is null: the message is awaited, no Result
TickDownloadEmpty ==
  \E t \in BagToSet(ticks) :
    /\ t.pc = "download"
    /\ t.n > 0
    /\ ticks' = Move(ticks, t, TickRec("downloaded", t.job, Null, 0, NoJob))
    /\ lastOp' = "downloadEmpty"
    /\ TickFrame
    /\ UNCHANGED << loading, inProgress, result, requestStatus, dbJobs, srv,
                    cancelReqs, fetchReqs, fetchFailed >>
    /\ UNCHANGED << editVars, appVars >>

\* responses[0].body is a blob: URL.createObjectURL(image), then the Result
\* is set and downloadImages returns to the await of the callback; reading
\* metadata.width of a missing metadata throws after the handle was created
TickDownloaded ==
  \E t \in BagToSet(ticks) :
    /\ t.pc = "download"
    /\ t.n > 0
    /\ nextHandle <= MaxHandles
    /\ nextHandle' = nextHandle + 1
    /\ IF t.meta = Null
       THEN /\ ticks' = End(ticks, t)
            /\ UNCHANGED result
       ELSE /\ result' = NewResult(t)
            /\ ticks' = Move(ticks, t, TickRec("downloaded", t.job, Null, 1, NoJob))
    /\ lastOp' = "step"
    /\ UNCHANGED << form, gens, nextJob, revoked, dbMetadata, loading,
                    inProgress, requestStatus, dbJobs, srv, cancelReqs,
                    fetchReqs, fetchFailed >>
    /\ UNCHANGED << editVars, appVars >>

\* await this.downloadImages(...) resumes: with a job in the signal
\* deleteInProgressJob(this.inProgress()!) is called, without one loading
\* is switched off and the callback returns
TickAfterDownload ==
  \E t \in BagToSet(ticks) :
    /\ t.pc = "downloaded"
    /\ IF inProgress # NoJob
       THEN /\ ticks' = Move(ticks, t, TickRec("delete2", inProgress, Null, t.n, NoJob))
            /\ UNCHANGED loading
       ELSE /\ ticks' = End(ticks, t)
            /\ loading' = FALSE
    /\ lastOp' = "step"
    /\ TickFrame
    /\ UNCHANGED << inProgress, result, requestStatus, dbJobs, srv,
                    cancelReqs, fetchReqs, fetchFailed >>
    /\ UNCHANGED << editVars, appVars >>

\* mutant: the record is deleted but the reference is kept
TickCompletedKeepsJob ==
  \E t \in BagToSet(ticks) :
    /\ t.pc = "delete2"
    /\ dbJobs' = deleteInProgressJob(dbJobs, t.job)
    /\ loading' = FALSE
    /\ ticks' = End(ticks, t)
    /\ lastOp' = "completed"
    /\ TickFrame
    /\ UNCHANGED << inProgress, result, requestStatus, srv, cancelReqs,
                    fetchReqs, fetchFailed >>
    /\ UNCHANGED << editVars, appVars >>

\* deleteInProgressJob resolved: the reference is cleared, loading off
TickCompleted ==
  \E t \in BagToSet(ticks) :
    /\ t.pc = "delete2"
    /\ dbJobs' = deleteInProgressJob(dbJobs, t.job)
    /\ inProgress' = NoJob
    /\ loading' = FALSE
    /\ ticks' = End(ticks, t)
    /\ lastOp' = "completed"
    /\ TickFrame
    /\ UNCHANGED << result, requestStatus, srv, cancelReqs, fetchReqs,
                    fetchFailed >>
    /\ UNCHANGED << editVars, appVars >>

\* ------------------------------------------------------------------ Next
Next ==
    \/ FormEdit
    \/ generateImage
    \/ GenApiFailed
    \/ GenApiFailedEnd
    \/ GenApiSucceeded
    \/ GenJobAdded
    \/ GenDone
    \/ TickStart
    \/ TickStatusFailed
    \/ TickPending
    \/ TickImpossible
    \/ TickCancelled
    \/ TickDeleted
    \/ TickDone
    \/ TickJobsRead
    \/ TickResultFailed
    \/ TickResultFailedEnd
    \/ TickResultFetched
    \/ TickMetadataRead
    \/ TickDownloadThrew
    \/ TickDownloadEmpty
    \/ TickDownloaded
    \/ TickAfterDownload
    \/ TickCompleted

Spec == Init /\ [][Next]_vars

TypeOK ==
    /\ form \in FormValues
    /\ loading \in BOOLEAN
    /\ inProgress \in Jobs \cup {NoJob}
    /\ dbJobs \subseteq Jobs
    /\ nextJob \in 1..(MaxJobs + 1)
    /\ nextHandle \in 1..(MaxHandles + 1)
    /\ revoked \subseteq created
    /\ BagCardinality(ticks) + BagCardinality(gens) <= MaxTasks
    /\ \A j \in Jobs : cancelReqs[j] \in 0..MaxReq /\ fetchReqs[j] \in 0..MaxReq

\* ------------------------------------------------------------- the form
\* The form with its valueChanges subscriber and generateImage(), without
\* the polling loop.

\* the user edits the form: valueChanges emits and the subscriber calls
\* storeGenerationOptions(this.formAsOptions)
valueChanges ==
    /\ BagCardinality(edits) < MaxEdits
    /\ \E f \in FormInputs :
          /\ f # form
          /\ form' = f
          /\ edits' = edits (+) One(EditRec("store", formAsOptions(f)))
    /\ lastOp' = "edit"
    /\ UNCHANGED << loading, inProgress, result, requestStatus, dbJobs,
                    dbMetadata, ticks, gens, nextJob, srv, nextHandle,
                    revoked, cancelReqs, fetchReqs, fetchFailed >>
    /\ UNCHANGED << dbOptions, kudosCost, appVars >>

\* storeGenerationOptions resolved; getGenerationOptions is called
EditStored ==
  \E e \in BagToSet(edits) :
    /\ e.pc = "store"
    /\ dbOptions' = storeGenerationOptions(dbOptions, e.opts)
    /\ edits' = Move(edits, e, EditRec("read", e.opts))
    /\ lastOp' = "step"
    /\ UNCHANGED << form, loading, inProgress, result, requestStatus, dbJobs,
                    dbMetadata, ticks, gens, nextJob, srv, nextHandle,
                    revoked, cancelReqs, fetchReqs, fetchFailed >>
    /\ UNCHANGED << kudosCost, appVars >>

\* getGenerationOptions resolved: kudosCost is the cost of the options read
EditCostSet ==
  \E e \in BagToSet(edits) :
    /\ e.pc = "read"
    /\ kudosCost' = calculate(dbOptions)
    /\ edits' = End(edits, e)
    /\ lastOp' = "costSet"
    /\ UNCHANGED << form, loading, inProgress, result, requestStatus, dbJobs,
                    dbMetadata, ticks, gens, nextJob, srv, nextHandle,
                    revoked, cancelReqs, fetchReqs, fetchFailed >>
    /\ UNCHANGED << dbOptions, appVars >>

\* the form is patched with stored options, which have every size
InitForm ==
    /\ form \in { f \in FormInputs : f.width # NoValue /\ f.height # NoValue }
    /\ JobsInit
    /\ EditInit
    /\ AppIdle

NextForm ==
    \/ valueChanges
    \/ EditStored
    \/ EditCostSet
    \/ generateImage
    \/ GenApiFailed
    \/ GenApiFailedEnd
    \/ GenApiSucceeded
    \/ GenJobAdded
    \/ GenDone

SpecForm == InitForm /\ [][NextForm]_vars

\* ---------------------------------------------------------- AppComponent
\* AppComponent.ngOnInit with the versionUpdates subscriber.

AppFrame ==
    UNCHANGED << form, loading, inProgress, result, requestStatus, dbJobs,
                 dbMetadata, ticks, gens, nextJob, srv, nextHandle, revoked,
                 cancelReqs, fetchReqs, fetchFailed, editVars >>

\* lines 62-63: with a key that is not the anonymous key currentUser() is
\* requested, else ngOnInit returns
AfterUpdateCheck == IF apiKey # AnonymousApiKey THEN "user" ELSE "done"

\* ngOnInit up to its first await: with the service worker enabled the
\* subscription and checkForUpdate(), else line 62
AppNgOnInit ==
    /\ app = "init"
    /\ app' = IF isEnabled THEN "check" ELSE AfterUpdateCheck
    /\ lastOp' = "ngOnInit"
    /\ UNCHANGED << apiKey, isEnabled, updateChecked, versions, toasts >>
    /\ AppFrame

\* checkForUpdate() resolved: updateChecked is set, then line 62
AppUpdateChecked ==
    /\ app = "check"
    /\ updateChecked' = TRUE
    /\ app' = AfterUpdateCheck
    /\ lastOp' = "updateChecked"
    /\ UNCHANGED << apiKey, isEnabled, versions, toasts >>
    /\ AppFrame

\* checkForUpdate() rejected: ngOnInit throws
AppUpdateCheckFailed ==
    /\ app = "check"
    /\ app' = "failed"
    /\ lastOp' = "updateCheckFailed"
    /\ UNCHANGED << apiKey, isEnabled, updateChecked, versions, toasts >>
    /\ AppFrame

\* currentUser() answered with success
AppUserSucceeded ==
    /\ app = "user"
    /\ app' = "done"
    /\ lastOp' = "userSucceeded"
    /\ UNCHANGED << apiKey, isEnabled, updateChecked, versions, toasts >>
    /\ AppFrame

\* mutant: a failed currentUser() leaves the key
AppUserFailedKeepsKey ==
    /\ app = "user"
    /\ app' = "done"
    /\ lastOp' = "userFailed"
    /\ UNCHANGED << apiKey, isEnabled, updateChecked, versions, toasts >>
    /\ AppFrame

\* currentUser() answered without success: the key becomes the anonymous key
AppUserFailed ==
    /\ app = "user"
    /\ apiKey' = AnonymousApiKey
    /\ app' = "done"
    /\ lastOp' = "userFailed"
    /\ UNCHANGED << isEnabled, updateChecked, versions, toasts >>
    /\ AppFrame

\* versionUpdates emits: the subscriber returns once the check is over or
\* for an event other than VERSION_READY, else it awaits the toast's message
VersionEvent ==
    /\ isEnabled
    /\ app \notin {"init"}
    /\ \E type \in {"VERSION_DETECTED", "VERSION_READY"} :
          IF ~updateChecked /\ type = "VERSION_READY"
          THEN /\ BagCardinality(versions) + toasts < MaxToasts
               /\ versions' = versions (+) One("available")
          ELSE UNCHANGED versions
    /\ lastOp' = "versionEvent"
    /\ UNCHANGED << apiKey, isEnabled, app, updateChecked, toasts >>
    /\ AppFrame

\* the message is translated; the title is awaited
VersionMessageRead ==
    /\ CopiesIn("available", versions) > 0
    /\ versions' = Move(versions, "available", "title")
    /\ lastOp' = "step"
    /\ UNCHANGED << apiKey, isEnabled, app, updateChecked, toasts >>
    /\ AppFrame

\* the title is translated: toastr.info shows the toast
VersionToastShown ==
    /\ CopiesIn("title", versions) > 0
    /\ versions' = End(versions, "title")
    /\ toasts' = toasts + 1
    /\ lastOp' = "step"
    /\ UNCHANGED << apiKey, isEnabled, app, updateChecked >>
    /\ AppFrame

\* the toast is tapped: window.location.reload() starts the application
\* again with the key it has stored
ToastTapped ==
    /\ toasts > 0
    /\ toasts' = 0
    /\ versions' = EmptyBag
    /\ updateChecked' = FALSE
    /\ app' = "init"
    /\ lastOp' = "reload"
    /\ UNCHANGED << apiKey, isEnabled >>
    /\ AppFrame

\* the application is constructed: a stored key or the anonymous key, the
\* service worker enabled or not
InitApp ==
    /\ form \in FormValues
    /\ JobsInit
    /\ EditInit
    /\ apiKey \in {AnonymousApiKey, StoredApiKey}
    /\ isEnabled \in BOOLEAN
    /\ app = "init"
    /\ updateChecked = FALSE
    /\ versions = EmptyBag
    /\ toasts = 0

NextApp ==
    \/ AppNgOnInit
    \/ AppUpdateChecked
    \/ AppUpdateCheckFailed
    \/ AppUserSucceeded
    \/ AppUserFailed
    \/ VersionEvent
    \/ VersionMessageRead
    \/ VersionToastShown
    \/ ToastTapped

SpecApp == InitApp /\ [][NextApp]_vars

\* ================================================================ claims

\* C1: the persisted job store holds at most one JobInProgress record in
\* every reachable state.
C1_AtMostOneRecord == Cardinality(dbJobs) <= 1

\* C2: a generateImage() call made while inProgress is non-null is rejected
\* whatever the form holds: no task awaiting api.generateImage is added and
\* the persisted job, its metadata, the in-memory job, the Result (and with
\* it the handles), loading and the ids handed out are all unchanged.
C2_RejectedWhileInProgress ==
    [][(lastOp' = "generateImage" /\ inProgress # NoJob)
         => UNCHANGED << gens, dbJobs, dbMetadata, inProgress, result,
                         revoked, loading, nextJob >>]_vars

\* a rejected call with a valid form and a job in progress
C2_Witness ==
    lastOp = "generateImage" /\ inProgress # NoJob /\ FormValid(form)

\* C3: a job that is never reported impossible and whose result fetch never
\* fails gets no cancelJob request and at most one getGeneratedImageResult
\* request, and when its tick has completed the store is empty and the
\* in-memory job is null.
C3_OneFetchNoCancel ==
    /\ \A j \in Jobs :
          (srv[j] # "impossible" /\ ~fetchFailed[j])
             => cancelReqs[j] = 0 /\ fetchReqs[j] <= 1
    /\ lastOp = "completed" => (dbJobs = {} /\ inProgress = NoJob)

\* C4: a job reported impossible gets at most one cancelJob request and no
\* getGeneratedImageResult request.
C4_OneCancelNoFetch ==
    \A j \in Jobs :
       srv[j] = "impossible" => cancelReqs[j] <= 1 /\ fetchReqs[j] = 0

\* C5: when a generateImage() call has completed, the store holds exactly
\* the job that is in memory.
C5_SubmittedJobIsTheRecord ==
    lastOp = "generateDone" => dbJobs = {inProgress}

\* the tasks suspended at an await after which they write the shared job
\* state whatever the await brings
Writers(bag) ==
    LET at == { r \in BagToSet(bag) : r.pc \in {"delete", "delete2", "add", "meta"} }
    IN  BagCardinality([r \in at |-> CopiesIn(r, bag)])

\* C6: at no time are two polling ticks, or a polling tick and a
\* generateImage() call, both suspended before a write of the shared job
\* state.
C6_OneWriterAtATime ==
    /\ Writers(ticks) <= 1
    /\ Writers(ticks) = 0 \/ Writers(gens) = 0

\* C7: the step of a tick whose status check failed leaves the persisted
\* jobs, the in-memory job, requestStatus and the Result unchanged, issues
\* no cancelJob or getGeneratedImageResult request and suspends no task; and
\* a tick that starts with a job in memory issues one status check for it.
C7_FailedStatusCheck ==
    [][/\ lastOp' = "statusFailed"
            => /\ UNCHANGED << dbJobs, dbMetadata, inProgress, requestStatus,
                               result, loading, cancelReqs, fetchReqs >>
               /\ BagCardinality(ticks') = BagCardinality(ticks) - 1
       /\ (lastOp' = "tick" /\ inProgress # NoJob)
            => \E r \in BagToSet(ticks') :
                  /\ r.pc = "status" /\ r.job = inProgress
                  /\ CopiesIn(r, ticks') = CopiesIn(r, ticks) + 1
                  /\ BagCardinality(ticks') = BagCardinality(ticks) + 1]_vars

\* a status check has failed after an earlier one had set requestStatus,
\* and the job is still the one in memory and in the store
C7_Witness ==
    /\ lastOp = "statusFailed"
    /\ inProgress # NoJob
    /\ inProgress \in dbJobs
    /\ requestStatus # Null
    /\ ticks = EmptyBag

\* C8: the steps of a tick that sees done and whose result fetch fails (the
\* done status, the failed fetch, the return after the message) leave the
\* persisted jobs, the in-memory job and the Result unchanged and create no
\* handle, and the last of them ends the tick with loading false.
C8_FailedResultFetch ==
    [][/\ lastOp' \in {"statusDone", "resultFailed", "resultFailedEnd"}
            => UNCHANGED << dbJobs, dbMetadata, inProgress, result,
                            nextHandle, revoked >>
       /\ lastOp' = "resultFailedEnd"
            => /\ loading' = FALSE
               /\ BagCardinality(ticks') = BagCardinality(ticks) - 1]_vars

\* a result fetch has failed: the job is in memory and in the store, there
\* is no Result and loading is off
C8_Witness ==
    /\ lastOp = "resultFailedEnd"
    /\ inProgress # NoJob
    /\ fetchFailed[inProgress]
    /\ inProgress \in dbJobs
    /\ result = Null
    /\ ~loading
    /\ ticks = EmptyBag

\* C9 as claimed: no tick that starts after a result fetch of a job has
\* failed issues another getGeneratedImageResult request for that job.
C9_NoFetchAfterFailure ==
    [][\A r \in BagToSet(ticks') :
          (r.pc = "result" /\ r.retryOf = r.job)
             => CopiesIn(r, ticks') <= CopiesIn(r, ticks)]_vars

\* C9 as amended: a tick that sees done while the job in memory is one whose
\* result fetch has failed issues another getGeneratedImageResult request
\* for that job.
C9_FetchAgainAfterFailure ==
    [][(lastOp' = "statusDone" /\ inProgress # NoJob /\ fetchFailed[inProgress])
         => /\ fetchReqs'[inProgress] = fetchReqs[inProgress] + 1
            /\ \E r \in BagToSet(ticks') :
                  /\ r.pc = "result" /\ r.job = inProgress
                  /\ CopiesIn(r, ticks') = CopiesIn(r, ticks) + 1]_vars

\* a tick started after the failure has issued the second result fetch
C9_Witness ==
    /\ lastOp = "statusDone"
    /\ \E r \in BagToSet(ticks) :
          /\ r.pc = "result" /\ r.retryOf = r.job
          /\ r.job = inProgress
          /\ fetchFailed[r.job] /\ fetchReqs[r.job] = 2

\* C10: at most one created handle is unreleased, and the Result shown
\* never refers to a released handle.
C10_HandlesReleased ==
    /\ Cardinality(created \ revoked) <= 1
    /\ result # Null => result.source \notin revoked

\* the sizes the API accepts: a multiple of 64 within [64, 3072]
OnGrid(n) == n \in MinSize..MaxSize /\ n % DivisibleBy = 0

\* C11: the options of every generateImage() call awaiting api.generateImage
\* have a width and a height that are multiples of 64 within [64, 3072], and
\* a call made while the form holds another width or height suspends no
\* task and changes nothing.
C11_SizesSentAreOnGrid ==
    [][/\ \A g \in BagToSet(gens') :
             g.pc = "api" => OnGrid(g.opts.width) /\ OnGrid(g.opts.height)
       /\ (lastOp' = "generateImage"
              /\ ~(form.width # NoValue /\ OnGrid(form.width)
                     /\ form.height # NoValue /\ OnGrid(form.height)))
            => UNCHANGED << form, loading, inProgress, result, requestStatus,
                            dbJobs, dbMetadata, ticks, gens, nextJob, srv,
                            nextHandle, revoked, cancelReqs, fetchReqs,
                            fetchFailed, editVars >>]_vars

\* a call was rejected for a size that is a multiple of 64 above the maximum
\* although no job is in progress and every other control is valid
C11_Witness ==
    /\ lastOp = "generateImage"
    /\ (form.width > MaxSize \/ form.height > MaxSize)
    /\ form.width % DivisibleBy = 0
    /\ form.height % DivisibleBy = 0
    /\ form.others
    /\ inProgress = NoJob
    /\ gens = EmptyBag

\* C12: the step of a tick whose image download brought a null body leaves
\* the result signal as it was and creates and releases no handle.
C12_EmptyBodyKeepsResult ==
    [][lastOp' = "downloadEmpty"
         => UNCHANGED << result, nextHandle, revoked >>]_vars

\* a download has come back empty while the Result of an overlapping tick
\* is shown
C12_Witness ==
    /\ lastOp = "downloadEmpty"
    /\ result # Null
    /\ \E t \in BagToSet(ticks) : t.pc = "downloaded" /\ t.n = 0

\* C13: when no valueChanges subscriber is in flight, the stored options
\* are the options of the form as last edited and kudosCost is their cost.
C13_CostOfLatestEdit ==
    edits = EmptyBag
       => /\ dbOptions = formAsOptions(form)
          /\ kudosCost = calculate(formAsOptions(form))

\* C14: the JobMetadata a generateImage() call hands to storeJobMetadata
\* carries the id of the job returned and the width and height of the
\* options the call has sent to api.generateImage.
C14_MetadataOfOptionsSent ==
    \A g \in BagToSet(gens) :
       g.pc = "meta"
          => /\ g.meta.requestId = g.job
             /\ g.meta.width = g.opts.width
             /\ g.meta.height = g.opts.height

\* C15: a tick in the done branch that has called deleteInProgressJob has
\* set a Result before.
C15_DeletedOnlyWithResult ==
    \A t \in BagToSet(ticks) : t.pc = "delete2" => t.n = 1

\* C16: a tick that starts while inProgress is null suspends no task and
\* changes nothing; a status check is issued for the job in memory only;
\* the step that removes a record on impossibility or completion clears
\* inProgress, and only the last step of a successful generateImage() call
\* makes it non-null again.
C16_NoPollingWithoutJob ==
    [][/\ (lastOp' = "tick" /\ inProgress = NoJob)
            => UNCHANGED << form, loading, inProgress, result, requestStatus,
                            dbJobs, dbMetadata, ticks, gens, nextJob, srv,
                            nextHandle, revoked, cancelReqs, fetchReqs,
                            fetchFailed >>
       /\ \A r \in BagToSet(ticks') :
             (r.pc = "status" /\ CopiesIn(r, ticks') > CopiesIn(r, ticks))
                => (lastOp' = "tick" /\ inProgress # NoJob /\ r.job = inProgress)
       /\ lastOp' \in {"impossibleDone", "completed"} => inProgress' = NoJob
       /\ (inProgress = NoJob /\ inProgress' # NoJob)
            => lastOp' = "generateDone"]_vars

\* a tick has fired after the record of a completed job was removed: no
\* job in memory, no record, no task
C16_Witness ==
    /\ lastOp = "tick"
    /\ inProgress = NoJob
    /\ dbJobs = {}
    /\ \E j \in Jobs : srv[j] = "done" /\ fetchReqs[j] > 0
    /\ result # Null
    /\ ticks = EmptyBag
    /\ gens = EmptyBag

\* C17: currentUser() is requested only while the key is not the anonymous
\* key; the step of a failed request sets the key to the anonymous key; the
\* step of a successful request, and every step taken with the anonymous
\* key, leaves the key and requests nothing.
C17_CurrentUserAndKey ==
    [][/\ (app' = "user" /\ app # "user") => apiKey # AnonymousApiKey
       /\ lastOp' = "userFailed" => apiKey' = AnonymousApiKey
       /\ lastOp' = "userSucceeded" => apiKey' = apiKey
       /\ apiKey = AnonymousApiKey
            => (apiKey' = AnonymousApiKey /\ app' # "user")]_vars

\* the request for the user of a stored key has failed after the update
\* check: the key is the anonymous key and ngOnInit has returned
C17_Witness ==
    /\ lastOp = "userFailed"
    /\ apiKey = AnonymousApiKey
    /\ app = "done"
    /\ updateChecked

====
